---- MODULE Spec2Model ----
(***************************************************************************)
(* Model of the Debut trading core (src/src/cli/tester/history-providers/  *)
(* ib.ts, class Debut): the tick handler and its candle window, and the    *)
(* order operations createOrder / closeOrder over the order book.          *)
(*                                                                         *)
(* The program is single-threaded JavaScript: every `await` is a           *)
(* suspension point, and the code between two awaits runs atomically.      *)
(* Each action below is one such atomic piece: the call of an operation up *)
(* to its first await, or the resumption after an await up to the next.    *)
(* The outcome of an awaited plugin hook or Transport call (a value, a     *)
(* veto, a failure) is chosen when the operation resumes.                  *)
(***************************************************************************)
EXTENDS Integers, Sequences, FiniteSets, TLC

\* ------------------------------------------------------------------ bounds
\* Interval timestamps run 0..MaxTime (one unit = one interval).
MaxTime == 11
\* How many awaited hooks may fail (throw) during tick handling in one run.
MaxThrows == 1
\* How many calls of the order operations one run makes, all kinds together.
MaxCalls == 3

\* Close prices carried by ticks.
Prices == {1, 2}

\* The window's capacity: `this.candles.length === 10`.
WindowSize == 10

Candle == [time : 0..MaxTime, c : Prices]

VARIABLES
    candles,      \* this.candles: the candle window, most recent first
    fastUpdate,   \* TRUE once updateCandles has replaced itself (line 429)
    h,            \* the handler call in flight: its position and locals
    pre,          \* observation: this.candles when the latest handler call began
    hooks,        \* observation: what the latest handler call invoked, in order
    outcome,      \* observation: how the latest handler call ended
    delivered,    \* observation: onCandle deliveries of the candle now at index 0,
                  \* and how many of them were made by a handler call that failed later
    lastClosed,   \* observation: the same two counts for the candle closed last
    throws,       \* number of hook failures so far
    orders,       \* this.orders: the order book
    processing,   \* the executed orders whose `processing` flag is set
    opens,        \* the createOrder calls, by the cid each generated
    closes,       \* the closeOrder calls, in the order they were made; slot 0
                  \* is the call the closeAll loop is awaiting
    all,          \* the closeAll call: its position and locals
    disp,         \* the call of the disposer start() returned
    subscribed    \* TRUE until the disposer calls unsubscribe()

tickVars == <<candles, fastUpdate, h, pre, hooks, outcome, delivered, lastClosed, throws>>
orderVars == <<orders, processing, opens, closes, all, disp, subscribed>>
vars == <<candles, fastUpdate, h, pre, hooks, outcome, delivered, lastClosed, throws,
          orders, processing, opens, closes, all, disp, subscribed>>

\* ------------------------------------------------------------ candle window

NoCandle == [time |-> -1, c |-> 0]

\* get currentCandle(): this.candles[0] (undefined when the window is empty)
currentCandle == IF Len(candles) > 0 THEN candles[1] ELSE NoCandle

\* get prevCandle(): this.candles[1]
prevCandle == IF Len(candles) > 1 THEN candles[2] ELSE NoCandle

\* Array.prototype.pop
Pop(s) == IF Len(s) = 0 THEN s ELSE SubSeq(s, 1, Len(s) - 1)

\* Array.prototype.unshift
Unshift(s, x) == <<x>> \o s

\* Mutant of updateCandles: the eviction is forgotten.
updateCandles_NoEvict(cs, fast, candle) == Unshift(cs, candle)

\* updateCandles(candle): the window after the call. Once the window has been
\* full the method is replaced by one that always pops before it unshifts.
updateCandles(cs, fast, candle) ==
    IF fast \/ Len(cs) = WindowSize
        THEN Unshift(Pop(cs), candle)
        ELSE Unshift(cs, candle)

\* The self-replacement of updateCandles (lines 425-433).
updateCandlesReplaced(cs, fast) == fast \/ Len(cs) = WindowSize

\* Mutant of SetCurrent: the tick is pushed instead of written in place.
SetCurrent_Pushes(cs, tick) == Unshift(cs, tick)

\* `this.candles[0] = tick` (line 405)
SetCurrent(cs, tick) ==
    IF Len(cs) = 0 THEN <<tick>> ELSE [cs EXCEPT ![1] = tick]

\* `this.currentCandle && this.currentCandle.time !== tick.time` (line 393)
Change(cs, tick) == Len(cs) > 0 /\ cs[1].time # tick.time

\* ------------------------------------------------------------- tick handler

Idle == [pc |-> "idle", tick |-> NoCandle, change |-> FALSE, prevTick |-> NoCandle]

Hook(name, arg) == [name |-> name, arg |-> arg]

NoDeliveries == [n |-> 0, aborted |-> 0]

\* The ticks the stream can deliver next: the current interval again, or the
\* next one. Tick delivery is serialized, as in learn() (lines 383-387).
NextTicks ==
    IF Len(candles) = 0
        THEN {t \in Candle : t.time = 0}
        ELSE {t \in Candle : t.time \in {candles[1].time, candles[1].time + 1}}

\* A hook (or extension point) awaited by the handler fails: nothing catches it,
\* the handler call ends there.
HandlerThrows ==
    /\ h.pc # "idle"
    /\ throws < MaxThrows
    /\ throws' = throws + 1
    /\ h' = Idle
    /\ outcome' = "threw"
    /\ delivered' = IF h.pc \in {"onCandle", "candleExt", "onAfterCandle"}
                        THEN [delivered EXCEPT !.aborted = @ + 1]
                        ELSE delivered
    /\ UNCHANGED <<candles, fastUpdate, pre, hooks, lastClosed>>
    /\ UNCHANGED orderVars

\* handler(tick), lines 393-394: compute `change`, call the onBeforeTick hooks.
\* The stream delivers a tick once the handling of the one before has ended.
HandlerCall ==
    /\ h.pc = "idle"
    /\ \E tick \in NextTicks :
        /\ h' = [pc |-> "onBeforeTick", tick |-> tick,
                 change |-> Change(candles, tick), prevTick |-> NoCandle]
        /\ hooks' = <<Hook("onBeforeTick", tick)>>
    /\ pre' = candles
    /\ outcome' = "running"
    /\ UNCHANGED <<candles, fastUpdate, delivered, lastClosed, throws>>
    /\ UNCHANGED orderVars

\* Mutant of HandlerSkip: the tick is applied before the veto is looked at.
HandlerSkip_AppliesFirst ==
    /\ h.pc = "onBeforeTick"
    /\ h' = Idle
    /\ outcome' = "vetoed"
    /\ candles' = SetCurrent(candles, h.tick)
    /\ UNCHANGED <<fastUpdate, pre, hooks, delivered, lastClosed, throws>>
    /\ UNCHANGED orderVars

\* lines 396-398: a plugin vetoed the tick.
HandlerSkip ==
    /\ h.pc = "onBeforeTick"
    /\ h' = Idle
    /\ outcome' = "vetoed"
    /\ UNCHANGED <<candles, fastUpdate, pre, hooks, delivered, lastClosed, throws>>
    /\ UNCHANGED orderVars

\* Mutant of HandlerApply: the tick is written to index 0 on a boundary too.
HandlerApply_Always ==
    /\ h.pc = "onBeforeTick"
    /\ candles' = SetCurrent(candles, h.tick)
    /\ delivered' = IF h.change THEN delivered ELSE NoDeliveries
    /\ h' = [h EXCEPT !.pc = "onTick"]
    /\ hooks' = Append(hooks, Hook("onTick", h.tick))
    /\ UNCHANGED <<fastUpdate, pre, outcome, lastClosed, throws>>
    /\ UNCHANGED orderVars

\* lines 404-408: no veto; apply the tick in place when it stays in the
\* interval, then call the onTick hooks.
HandlerApply ==
    /\ h.pc = "onBeforeTick"
    /\ candles' = IF h.change THEN candles ELSE SetCurrent(candles, h.tick)
    /\ delivered' = IF h.change THEN delivered ELSE NoDeliveries
    /\ h' = [h EXCEPT !.pc = "onTick"]
    /\ hooks' = Append(hooks, Hook("onTick", h.tick))
    /\ UNCHANGED <<fastUpdate, pre, outcome, lastClosed, throws>>
    /\ UNCHANGED orderVars

\* line 409: the onTick hooks returned; call the tick extension point.
HandlerOnTick ==
    /\ h.pc = "onTick"
    /\ h' = [h EXCEPT !.pc = "tickExt"]
    /\ hooks' = Append(hooks, Hook("tickExt", h.tick))
    /\ UNCHANGED <<candles, fastUpdate, pre, outcome, delivered, lastClosed, throws>>
    /\ UNCHANGED orderVars

\* Mutant of HandlerTickExt: onCandle is given the incoming tick, not the
\* candle being closed.
HandlerTickExt_PassesTick ==
    /\ h.pc = "tickExt"
    /\ IF h.change
        THEN /\ h' = [h EXCEPT !.pc = "onCandle", !.prevTick = h.tick]
             /\ hooks' = Append(hooks, Hook("onCandle", h.tick))
             /\ outcome' = outcome
             /\ delivered' = [delivered EXCEPT !.n = @ + 1]
        ELSE /\ h' = Idle
             /\ hooks' = hooks
             /\ outcome' = "done"
             /\ delivered' = delivered
    /\ UNCHANGED <<candles, fastUpdate, pre, lastClosed, throws>>
    /\ UNCHANGED orderVars

\* lines 411-414: this.onTick returned. Without a boundary the handler is done;
\* with one, read prevTick and call the onCandle hooks.
HandlerTickExt ==
    /\ h.pc = "tickExt"
    /\ IF h.change
        THEN /\ h' = [h EXCEPT !.pc = "onCandle", !.prevTick = currentCandle]
             /\ hooks' = Append(hooks, Hook("onCandle", currentCandle))
             /\ outcome' = outcome
             /\ delivered' = [delivered EXCEPT !.n = @ + 1]
        ELSE /\ h' = Idle
             /\ hooks' = hooks
             /\ outcome' = "done"
             /\ delivered' = delivered
    /\ UNCHANGED <<candles, fastUpdate, pre, lastClosed, throws>>
    /\ UNCHANGED orderVars

\* line 415: the onCandle hooks returned; call the candle extension point.
HandlerOnCandle ==
    /\ h.pc = "onCandle"
    /\ h' = [h EXCEPT !.pc = "candleExt"]
    /\ hooks' = Append(hooks, Hook("candleExt", h.prevTick))
    /\ UNCHANGED <<candles, fastUpdate, pre, outcome, delivered, lastClosed, throws>>
    /\ UNCHANGED orderVars

\* line 416: this.onCandle returned; call the onAfterCandle hooks.
HandlerCandleExt ==
    /\ h.pc = "candleExt"
    /\ h' = [h EXCEPT !.pc = "onAfterCandle"]
    /\ hooks' = Append(hooks, Hook("onAfterCandle", h.prevTick))
    /\ UNCHANGED <<candles, fastUpdate, pre, outcome, delivered, lastClosed, throws>>
    /\ UNCHANGED orderVars

\* line 417: the onAfterCandle hooks returned; update the window.
HandlerAfterCandle ==
    /\ h.pc = "onAfterCandle"
    /\ candles' = updateCandles(candles, fastUpdate, h.tick)
    /\ fastUpdate' = updateCandlesReplaced(candles, fastUpdate)
    /\ hooks' = Append(hooks, Hook("updateCandles", h.tick))
    /\ h' = Idle
    /\ outcome' = "done"
    /\ lastClosed' = delivered
    /\ delivered' = NoDeliveries
    /\ UNCHANGED <<pre, throws>>
    /\ UNCHANGED orderVars

\* --------------------------------------------------------------- order book

\* An order object. The PendingOrder of a createOrder call and the ExecutedOrder
\* Transport returns for it are two objects with the same cid; only the
\* executed one has an orderId.
Pending(k) == [cid |-> k, kind |-> "pending"]
Executed(k) == [cid |-> k, kind |-> "executed"]

\* `'orderId' in closing`
HasOrderId(o) == o.kind = "executed"

\* Array.prototype.indexOf, 1-based; 0 when absent (the code's -1).
IndexOf(s, x) ==
    IF \E i \in DOMAIN s : s[i] = x
        THEN CHOOSE i \in DOMAIN s : s[i] = x /\ \A j \in 1..(i - 1) : s[j] # x
        ELSE 0

\* `this.orders.findIndex((item) => item.cid === order.cid)`, 1-based, 0 when absent.
FindIndexByCid(s, cid) ==
    IF \E i \in DOMAIN s : s[i].cid = cid
        THEN CHOOSE i \in DOMAIN s : s[i].cid = cid /\ \A j \in 1..(i - 1) : s[j].cid # cid
        ELSE 0

\* `this.orders.splice(idx, 1)`
Splice(s, idx) == SubSeq(s, 1, idx - 1) \o SubSeq(s, idx + 1, Len(s))

\* replacePendingOrder(order), lines 441-450
replacePendingOrder(os, order) ==
    LET idx == FindIndexByCid(os, order.cid)
    IN  IF idx # 0 THEN [os EXCEPT ![idx] = order] ELSE os

\* Mutant of removePendingOrder: the last entry is taken for the pending one.
removePendingOrder_Pops(os, order) == Pop(os)

\* removePendingOrder(order), lines 455-461
removePendingOrder(os, order) ==
    LET idx == FindIndexByCid(os, order.cid)
    IN  IF idx # 0 THEN Splice(os, idx) ELSE os

\* Mutant of RemoveClosing: the first entry is taken for the closing one.
RemoveClosing_Shifts(os, closing) ==
    IF Len(os) > 0 THEN Tail(os) ELSE os

\* lines 338-342: take the closing order out of the book
RemoveClosing(os, closing) ==
    LET idx == IndexOf(os, closing)
    IN  IF idx # 0 THEN Splice(os, idx) ELSE os

\* lines 355-360: put the closing order back unless it is in the book
RestoreClosing(os, closing) ==
    IF IndexOf(os, closing) = 0 THEN Unshift(os, closing) ELSE os

\* -------------------------------------------------------------- createOrder

\* A createOrder call: where it is, whether it has called Transport.placeOrder,
\* whether Transport returned an ExecutedOrder, whether it invoked onOpen.
\* pc: "none" (not called), the await it is suspended at ("onBeforeOpen",
\* "placeOrder", "onOpen", "onOrderOpened"), or how it ended: "vetoed" and
\* "caught" return undefined, "returned" returns the ExecutedOrder.
NoOpen == [pc |-> "none", sent |-> FALSE, executed |-> FALSE, onOpen |-> FALSE]

OpenAwaits == {"onBeforeOpen", "placeOrder", "onOpen", "onOrderOpened"}

\* The createOrder calls of a run generate the cids 1..MaxCalls; cid 0 is the
\* order that was opened before the run, when there is one.
Cids == 0..MaxCalls
CloseIds == 1..MaxCalls

\* The closeOrder calls of a run: those its callers make, and in slot 0 the one
\* the closeAll loop is awaiting (line 219).
CloseSlots == 0..MaxCalls

\* The calls made so far in this run.
Started ==
    Cardinality({k \in 1..MaxCalls : opens[k].pc # "none"})
        + Cardinality({c \in CloseIds : closes[c].pc # "none"})
        + (IF all.pc # "none" THEN 1 ELSE 0)

\* The cid the next createOrder call generates (line 237): a fresh one.
NextCid == CHOOSE k \in 1..MaxCalls :
    /\ opens[k].pc = "none"
    /\ \A j \in 1..(k - 1) : opens[j].pc # "none"

\* Mutant of CreateOrderCall: the PendingOrder is pushed before the veto hook.
CreateOrderCall_PushesFirst ==
    /\ Len(candles) > 0
    /\ Started < MaxCalls
    /\ orders' = Append(orders, Pending(NextCid))
    /\ opens' = [opens EXCEPT ![NextCid].pc = "onBeforeOpen"]
    /\ UNCHANGED <<processing, closes, all, disp, subscribed>>
    /\ UNCHANGED tickVars

\* lines 229-265: read the current candle (this throws when the window is
\* empty), build the PendingOrder, call the onBeforeOpen hooks.
CreateOrderCall ==
    /\ Len(candles) > 0
    /\ Started < MaxCalls
    /\ opens' = [opens EXCEPT ![NextCid].pc = "onBeforeOpen"]
    /\ UNCHANGED <<orders, processing, closes, all, disp, subscribed>>
    /\ UNCHANGED tickVars

\* lines 267-269: a plugin vetoed the open.
CreateOrderSkip(k) ==
    /\ opens[k].pc = "onBeforeOpen"
    /\ opens' = [opens EXCEPT ![k].pc = "vetoed"]
    /\ UNCHANGED <<orders, processing, closes, all, disp, subscribed>>
    /\ UNCHANGED tickVars

\* lines 271-272: no veto; push the PendingOrder, submit it to Transport.
CreateOrderPlace(k) ==
    /\ opens[k].pc = "onBeforeOpen"
    /\ orders' = Append(orders, Pending(k))
    /\ opens' = [opens EXCEPT ![k].pc = "placeOrder", ![k].sent = TRUE]
    /\ UNCHANGED <<processing, closes, all, disp, subscribed>>
    /\ UNCHANGED tickVars

\* lines 272-273: Transport returned the ExecutedOrder; call the onOpen hooks.
CreateOrderPlaced(k) ==
    /\ opens[k].pc = "placeOrder"
    /\ opens' = [opens EXCEPT ![k].pc = "onOpen", ![k].executed = TRUE, ![k].onOpen = TRUE]
    /\ UNCHANGED <<orders, processing, closes, all, disp, subscribed>>
    /\ UNCHANGED tickVars

\* lines 273-274: the onOpen hooks returned; call the order-opened extension point.
CreateOrderOnOpen(k) ==
    /\ opens[k].pc = "onOpen"
    /\ opens' = [opens EXCEPT ![k].pc = "onOrderOpened"]
    /\ UNCHANGED <<orders, processing, closes, all, disp, subscribed>>
    /\ UNCHANGED tickVars

\* lines 274-277: onOrderOpened returned; replace the pending entry, return the order.
CreateOrderOpened(k) ==
    /\ opens[k].pc = "onOrderOpened"
    /\ orders' = replacePendingOrder(orders, Executed(k))
    /\ opens' = [opens EXCEPT ![k].pc = "returned"]
    /\ UNCHANGED <<processing, closes, all, disp, subscribed>>
    /\ UNCHANGED tickVars

\* lines 278-281: what the call was awaiting (a hook, Transport.placeOrder, the
\* extension point) failed; the catch removes the pending entry by cid and the
\* call returns undefined.
CreateOrderCatch(k) ==
    /\ opens[k].pc \in OpenAwaits
    /\ orders' = removePendingOrder(orders, Pending(k))
    /\ opens' = [opens EXCEPT ![k].pc = "caught"]
    /\ UNCHANGED <<processing, closes, all, disp, subscribed>>
    /\ UNCHANGED tickVars

\* --------------------------------------------------------------- closeOrder

\* A closeOrder call: the order it was given, where it is, whether it has
\* called Transport.placeOrder, whether that succeeded, whether it invoked
\* onClose, and whether the order was in the book when the call was made.
\* pc: "none", the await it is suspended at ("onBeforeClose",
\* "placeOrder", "onClose", "onOrderClosed"), or how it ended: "noop", "vetoed"
\* and "caught" return undefined, "returned" returns the closing ExecutedOrder.
NoClose == [pc |-> "none", closing |-> Pending(0), sent |-> FALSE, closed |-> FALSE,
            onClose |-> FALSE, inBook |-> FALSE]

CloseAwaits == {"onBeforeClose", "placeOrder", "onClose", "onOrderClosed"}

NextClose == CHOOSE c \in CloseIds :
    /\ closes[c].pc = "none"
    /\ \A j \in 1..(c - 1) : closes[j].pc # "none"

\* The order objects a caller can pass to closeOrder: the entries of the book,
\* and every ExecutedOrder Transport has returned (onOpen receives it, and
\* createOrder returns it).
Closable ==
    {orders[i] : i \in DOMAIN orders}
        \cup {Executed(k) : k \in {j \in DOMAIN opens : opens[j].executed}}

\* Mutant of CloseOrderCall: the guard does not look at `processing`.
CloseOrderCall_NoGuard ==
    /\ Started < MaxCalls
    /\ \E closing \in Closable :
        IF ~HasOrderId(closing)
            THEN /\ closes' = [closes EXCEPT ![NextClose].pc = "noop",
                                             ![NextClose].closing = closing,
                                             ![NextClose].inBook = IndexOf(orders, closing) # 0]
                 /\ UNCHANGED <<orders, processing, opens>>
            ELSE /\ closes' = [closes EXCEPT ![NextClose].pc = "onBeforeClose",
                                             ![NextClose].closing = closing,
                                             ![NextClose].inBook = IndexOf(orders, closing) # 0]
                 /\ processing' = processing \cup {closing.cid}
                 /\ UNCHANGED <<orders, opens>>
    /\ UNCHANGED <<all, disp, subscribed>>
    /\ UNCHANGED tickVars

\* lines 287-331: the guard; past it, set `processing`, call the onBeforeClose hooks.
CloseOrderCall ==
    /\ Started < MaxCalls
    /\ \E closing \in Closable :
        IF closing.cid \in processing \/ ~HasOrderId(closing)
            THEN /\ closes' = [closes EXCEPT ![NextClose].pc = "noop",
                                             ![NextClose].closing = closing,
                                             ![NextClose].inBook = IndexOf(orders, closing) # 0]
                 /\ UNCHANGED <<orders, processing, opens>>
            ELSE /\ closes' = [closes EXCEPT ![NextClose].pc = "onBeforeClose",
                                             ![NextClose].closing = closing,
                                             ![NextClose].inBook = IndexOf(orders, closing) # 0]
                 /\ processing' = processing \cup {closing.cid}
                 /\ UNCHANGED <<orders, opens>>
    /\ UNCHANGED <<all, disp, subscribed>>
    /\ UNCHANGED tickVars

\* Mutant of CloseOrderSkip: the veto path returns without clearing the flag.
CloseOrderSkip_KeepsProcessing(c) ==
    /\ closes[c].pc = "onBeforeClose"
    /\ closes' = [closes EXCEPT ![c].pc = "vetoed"]
    /\ UNCHANGED <<orders, processing, opens>>
    /\ UNCHANGED <<all, disp, subscribed>>
    /\ UNCHANGED tickVars

\* lines 333-336: a plugin vetoed the close.
CloseOrderSkip(c) ==
    /\ closes[c].pc = "onBeforeClose"
    /\ processing' = processing \ {closes[c].closing.cid}
    /\ closes' = [closes EXCEPT ![c].pc = "vetoed"]
    /\ UNCHANGED <<orders, opens>>
    /\ UNCHANGED <<all, disp, subscribed>>
    /\ UNCHANGED tickVars

\* lines 338-344: no veto; take the order out of the book, submit the close.
CloseOrderPlace(c) ==
    /\ closes[c].pc = "onBeforeClose"
    /\ orders' = RemoveClosing(orders, closes[c].closing)
    /\ closes' = [closes EXCEPT ![c].pc = "placeOrder", ![c].sent = TRUE]
    /\ UNCHANGED <<processing, opens>>
    /\ UNCHANGED <<all, disp, subscribed>>
    /\ UNCHANGED tickVars

\* lines 344-346: Transport accepted the close; call the onClose hooks.
CloseOrderPlaced(c) ==
    /\ closes[c].pc = "placeOrder"
    /\ closes' = [closes EXCEPT ![c].pc = "onClose", ![c].closed = TRUE, ![c].onClose = TRUE]
    /\ UNCHANGED <<orders, processing, opens>>
    /\ UNCHANGED <<all, disp, subscribed>>
    /\ UNCHANGED tickVars

\* lines 346-347: the onClose hooks returned; call the order-closed extension point.
CloseOrderOnClose(c) ==
    /\ closes[c].pc = "onClose"
    /\ closes' = [closes EXCEPT ![c].pc = "onOrderClosed"]
    /\ UNCHANGED <<orders, processing, opens>>
    /\ UNCHANGED <<all, disp, subscribed>>
    /\ UNCHANGED tickVars

\* lines 347-349 and 361-363: onOrderClosed returned; return the order, and the
\* finally block clears `processing`.
CloseOrderClosed(c) ==
    /\ closes[c].pc = "onOrderClosed"
    /\ processing' = processing \ {closes[c].closing.cid}
    /\ closes' = [closes EXCEPT ![c].pc = "returned"]
    /\ UNCHANGED <<orders, opens>>
    /\ UNCHANGED <<all, disp, subscribed>>
    /\ UNCHANGED tickVars

\* lines 350-363: what the call was awaiting failed; the catch puts the order
\* back at the front unless it is in the book, the finally block clears
\* `processing`, and the call returns undefined.
CloseOrderCatch(c) ==
    /\ closes[c].pc \in CloseAwaits
    /\ orders' = RestoreClosing(orders, closes[c].closing)
    /\ processing' = processing \ {closes[c].closing.cid}
    /\ closes' = [closes EXCEPT ![c].pc = "caught"]
    /\ UNCHANGED opens
    /\ UNCHANGED <<all, disp, subscribed>>
    /\ UNCHANGED tickVars

\* ----------------------------------------------------------------- closeAll

\* What closeOrder returns when it does not return the order.
Undefined == [cid |-> -1, kind |-> "undefined"]

\* How a closeOrder call can have ended.
CloseEnds == {"noop", "vetoed", "returned", "caught"}

\* The closeAll call of a run, made by a caller or by the disposer: where it is,
\* its locals `orders` (snapshot), `i` and `closed`, the order each closeOrder
\* call of its loop was given (attempts), and those of them whose close
\* Transport accepted (succeeded).
\* pc: "none", "closeOrder" (suspended at line 219), or how it ended: "empty"
\* returns undefined (line 210), "returned" returns `closed`, "threw" rejects.
NoCloseAll == [pc |-> "none", snapshot |-> <<>>, i |-> 0, attempts |-> <<>>,
               succeeded |-> <<>>, closed |-> <<>>]

\* lines 287-331 for the call of line 219: closeOrder(closing) in slot 0.
CloseOrderBegin(closing) ==
    IF closing.cid \in processing \/ ~HasOrderId(closing)
        THEN /\ closes' = [closes EXCEPT ![0] = [NoClose EXCEPT !.pc = "noop",
                                                                 !.closing = closing,
                                                                 !.inBook = TRUE]]
             /\ processing' = processing
        ELSE /\ closes' = [closes EXCEPT ![0] = [NoClose EXCEPT !.pc = "onBeforeClose",
                                                                 !.closing = closing,
                                                                 !.inBook = TRUE]]
             /\ processing' = processing \cup {closing.cid}

\* line 219, one iteration of the loop of the closeAll call with locals a:
\* closeOrder(this.orders[0]). On an empty book this.orders[0] is undefined
\* and closeOrder fails at `closing.processing` (line 290), outside its try.
CloseAllAttempt(a) ==
    IF Len(orders) = 0
        THEN /\ all' = [a EXCEPT !.pc = "threw"]
             /\ closes' = [closes EXCEPT ![0] = NoClose]
             /\ processing' = processing
        ELSE /\ all' = [a EXCEPT !.pc = "closeOrder", !.attempts = Append(@, orders[1])]
             /\ CloseOrderBegin(orders[1])

\* lines 208-219: nothing to do on an empty book; else snapshot the book and
\* enter the loop.
closeAll ==
    IF Len(orders) = 0
        THEN /\ all' = [NoCloseAll EXCEPT !.pc = "empty"]
             /\ UNCHANGED <<closes, processing>>
        ELSE CloseAllAttempt([NoCloseAll EXCEPT !.snapshot = orders])

\* A caller calls closeAll.
CloseAllCall ==
    /\ Started < MaxCalls
    /\ all.pc = "none"
    /\ closeAll
    /\ UNCHANGED <<orders, opens, disp, subscribed>>
    /\ UNCHANGED tickVars

\* The result of the closeOrder call the loop awaited.
CloseResult == IF closes[0].pc = "returned" THEN closes[0].closing ELSE Undefined

\* lines 218-223: the awaited closeOrder call has ended; collect what it
\* returned, then go round the loop again or return `closed`.
CloseAllNext ==
    /\ all.pc = "closeOrder"
    /\ closes[0].pc \in CloseEnds
    /\ LET a == [all EXCEPT !.i = @ + 1,
                            !.succeeded = IF closes[0].closed
                                              THEN Append(@, closes[0].closing) ELSE @,
                            !.closed = Append(@, CloseResult)]
       IN  IF a.i < Len(a.snapshot)
               THEN CloseAllAttempt(a)
               ELSE /\ all' = [a EXCEPT !.pc = "returned"]
                    /\ closes' = [closes EXCEPT ![0] = NoClose]
                    /\ processing' = processing
    /\ UNCHANGED <<orders, opens, disp, subscribed>>
    /\ UNCHANGED tickVars

\* ------------------------------------------------------------------ dispose

\* The call of the disposer (lines 188-193).
\* pc: "none", "closeAll" (suspended at line 189), "onDispose" (suspended at
\* line 192), or how it ended: "done", "failed" (an onDispose hook failed),
\* "threw" (closeAll rejected).
NoDispose == [pc |-> "none"]

\* line 189: the disposer is invoked and calls closeAll.
DisposeCall ==
    /\ Started < MaxCalls
    /\ all.pc = "none"
    /\ disp.pc = "none"
    /\ closeAll
    /\ disp' = [disp EXCEPT !.pc = "closeAll"]
    /\ UNCHANGED <<orders, opens, subscribed>>
    /\ UNCHANGED tickVars

\* lines 190-192: closeAll has returned; unsubscribe, call the onDispose hooks.
DisposeUnsubscribe ==
    /\ disp.pc = "closeAll"
    /\ all.pc \in {"empty", "returned"}
    /\ subscribed' = FALSE
    /\ disp' = [disp EXCEPT !.pc = "onDispose"]
    /\ UNCHANGED <<orders, processing, opens, closes, all>>
    /\ UNCHANGED tickVars

\* line 189: closeAll has rejected, and so does the disposer.
DisposeThrows ==
    /\ disp.pc = "closeAll"
    /\ all.pc = "threw"
    /\ disp' = [disp EXCEPT !.pc = "threw"]
    /\ UNCHANGED <<orders, processing, opens, closes, all, subscribed>>
    /\ UNCHANGED tickVars

\* line 192: the onDispose hooks have returned, or one of them has failed.
DisposeDone ==
    /\ disp.pc = "onDispose"
    /\ \E end \in {"done", "failed"} : disp' = [disp EXCEPT !.pc = end]
    /\ UNCHANGED <<orders, processing, opens, closes, all, subscribed>>
    /\ UNCHANGED tickVars

\* ----------------------------------------------------------- specifications

\* The state after construction: an empty book, no call made.
InitOrderBook ==
    /\ orders = <<>>
    /\ processing = {}
    /\ opens = [k \in Cids |-> NoOpen]
    /\ closes = [c \in CloseSlots |-> NoClose]
    /\ all = NoCloseAll
    /\ disp = NoDispose
    /\ subscribed = TRUE

\* A createOrder call that has returned its ExecutedOrder.
Opened == [pc |-> "returned", sent |-> TRUE, executed |-> TRUE, onOpen |-> TRUE]

\* The book a run of order operations starts from: empty, or holding one
\* order that an earlier createOrder call opened and returned.
InitOneOpen ==
    /\ orders = <<Executed(0)>>
    /\ processing = {}
    /\ opens = [k \in Cids |-> IF k = 0 THEN Opened ELSE NoOpen]
    /\ closes = [c \in CloseSlots |-> NoClose]
    /\ all = NoCloseAll
    /\ disp = NoDispose
    /\ subscribed = TRUE

InitTicks ==
    /\ candles = <<>>
    /\ fastUpdate = FALSE
    /\ h = Idle
    /\ pre = <<>>
    /\ hooks = <<>>
    /\ outcome = "none"
    /\ delivered = NoDeliveries
    /\ lastClosed = NoDeliveries
    /\ throws = 0
    /\ InitOrderBook

NextTickStep ==
    \/ HandlerCall
    \/ HandlerSkip
    \/ HandlerApply
    \/ HandlerOnTick
    \/ HandlerTickExt
    \/ HandlerOnCandle
    \/ HandlerCandleExt
    \/ HandlerAfterCandle
    \/ HandlerThrows

SpecTicks == InitTicks /\ [][NextTickStep]_vars

\* The order operations, with a first tick already applied: createOrder and
\* closeOrder are called from hooks and extension points of the tick handler,
\* from callbacks of their own, or by the strategy's owner, so calls overlap
\* at every await.
InitOrders ==
    /\ candles = << [time |-> 0, c |-> 1] >>
    /\ fastUpdate = FALSE
    /\ h = Idle
    /\ pre = <<>>
    /\ hooks = <<>>
    /\ outcome = "none"
    /\ delivered = NoDeliveries
    /\ lastClosed = NoDeliveries
    /\ throws = 0
    /\ (InitOrderBook \/ InitOneOpen)

NextOrderStep ==
    \/ CreateOrderCall
    \/ \E k \in 1..MaxCalls :
        \/ CreateOrderSkip(k)
        \/ CreateOrderPlace(k)
        \/ CreateOrderPlaced(k)
        \/ CreateOrderOnOpen(k)
        \/ CreateOrderOpened(k)
        \/ CreateOrderCatch(k)
    \/ CloseOrderCall
    \/ \E c \in CloseIds :
        \/ CloseOrderSkip(c)
        \/ CloseOrderPlace(c)
        \/ CloseOrderPlaced(c)
        \/ CloseOrderOnClose(c)
        \/ CloseOrderClosed(c)
        \/ CloseOrderCatch(c)

SpecOrders == InitOrders /\ [][NextOrderStep]_vars

\* A closeOrder call resumes: what it awaited (a hook, Transport.placeOrder,
\* the extension point) has returned or failed.
CloseOrderResume(c) ==
    \/ CloseOrderSkip(c)
    \/ CloseOrderPlace(c)
    \/ CloseOrderPlaced(c)
    \/ CloseOrderOnClose(c)
    \/ CloseOrderClosed(c)
    \/ CloseOrderCatch(c)

\* The order operations when every hook and every Transport call a closeOrder
\* call awaits settles: a suspended closeOrder call is resumed in the end.
SpecOrdersFair ==
    /\ InitOrders
    /\ [][NextOrderStep]_vars
    /\ \A c \in CloseIds : WF_vars(CloseOrderResume(c))

\* The order operations together with closeAll and the disposer: closeAll is
\* called by a caller or by the disposer while createOrder and closeOrder
\* calls are in flight, and new ones are made while its loop is suspended
\* (the tick handler stays subscribed until closeAll has returned).
NextShutdownStep ==
    \/ NextOrderStep
    \/ CloseOrderResume(0)
    \/ CloseAllCall
    \/ CloseAllNext
    \/ DisposeCall
    \/ DisposeUnsubscribe
    \/ DisposeThrows
    \/ DisposeDone

SpecShutdown == InitOrders /\ [][NextShutdownStep]_vars

\* SpecShutdown when every awaited hook and Transport call settles.
SpecShutdownFair ==
    /\ InitOrders
    /\ [][NextShutdownStep]_vars
    /\ \A c \in CloseSlots : WF_vars(CloseOrderResume(c))

\* ------------------------------------------------------- claims on the ticks

Min(a, b) == IF a < b THEN a ELSE b

\* The tick of the latest handler call, and whether it crossed a boundary.
LastTick == hooks[1].arg
LastWasBoundary == Len(pre) > 0 /\ pre[1].time # LastTick.time
GatePassed == Len(hooks) >= 2

\* C5: the window never holds more than WindowSize candles; a boundary update
\* applied to a full window drops exactly the last (oldest) entry and keeps
\* the others in their order behind the new tick.
C5_WindowBounded ==
    [][ /\ Len(candles) <= WindowSize
        /\ Len(candles') <= WindowSize
        /\ (h.pc = "onAfterCandle" /\ outcome' = "done" /\ Len(candles) = WindowSize)
            => candles' = <<h.tick>> \o SubSeq(candles, 1, WindowSize - 1) ]_vars

\* A boundary tick was applied to a full window and the oldest entry is gone.
C5_Witness ==
    /\ outcome = "done"
    /\ LastWasBoundary
    /\ Len(pre) = WindowSize
    /\ Len(candles) = WindowSize
    /\ candles[WindowSize] = pre[WindowSize - 1]
    /\ pre[WindowSize] # pre[WindowSize - 1]

\* C6: when the handling of a boundary tick completes, index 0 is the tick and
\* index 1 is the candle that was at index 0 before it; and in every step the
\* closed candles (index 1 and up) either stay where they are or all move up
\* by one place behind the candle that was at index 0.
C6_BoundaryCloses ==
    [][ /\ (h.pc = "onAfterCandle" /\ outcome' = "done")
            => (candles'[1] = h.tick /\ candles'[2] = pre[1])
        /\ \/ SubSeq(candles', 2, Len(candles')) = SubSeq(candles, 2, Len(candles))
           \/ SubSeq(candles', 2, Len(candles'))
                = SubSeq(candles, 1, Min(Len(candles), WindowSize - 1)) ]_vars

\* A boundary tick has been handled and closed the candle before it.
C6_Witness ==
    /\ outcome = "done"
    /\ LastWasBoundary
    /\ Len(candles) >= 3
    /\ candles[1] = LastTick
    /\ candles[2] = pre[1]
    /\ candles[3] = pre[2]

\* C7: after a tick of the current interval (or the very first tick) has been
\* handled, index 0 is that tick, the window has the length it had (1 for the
\* first tick), every candle at index 1 and up is the one that was there, and
\* neither onCandle nor onAfterCandle was invoked.
C7_SameIntervalOverwrites ==
    (outcome = "done" /\ ~LastWasBoundary) =>
        /\ Len(candles) = (IF Len(pre) = 0 THEN 1 ELSE Len(pre))
        /\ candles[1] = LastTick
        /\ \A i \in 2..Len(candles) : candles[i] = pre[i]
        /\ \A i \in DOMAIN hooks :
            hooks[i].name \notin {"onCandle", "candleExt", "onAfterCandle", "updateCandles"}

\* A tick of the current interval replaced a different current candle, with
\* closed candles behind it.
C7_Witness ==
    /\ outcome = "done"
    /\ ~LastWasBoundary
    /\ Len(pre) >= 2
    /\ candles[1] = LastTick
    /\ candles[1] # pre[1]

\* C8 (as claimed): from the moment the onBeforeTick gate of a tick has passed,
\* during every later hook of the handler and after it has returned, index 0 of
\* the window is that tick.
C8_CurrentIsLatestTick ==
    (GatePassed /\ outcome \in {"running", "done"}) => currentCandle = LastTick

\* C9: a vetoed tick leaves the window exactly as it was and no hook after
\* onBeforeTick is invoked for it, boundary or not.
C9_VetoLeavesWindow ==
    outcome = "vetoed" =>
        /\ candles = pre
        /\ hooks = <<Hook("onBeforeTick", LastTick)>>

\* A tick that crosses a boundary was vetoed.
C9_Witness ==
    /\ outcome = "vetoed"
    /\ LastWasBoundary
    /\ Len(pre) >= 2

\* What a completed handler call invokes for a boundary tick t closing candle p.
BoundarySequence(t, p) ==
    << Hook("onBeforeTick", t), Hook("onTick", t), Hook("tickExt", t),
       Hook("onCandle", p), Hook("candleExt", p), Hook("onAfterCandle", p),
       Hook("updateCandles", t) >>

IsPrefix(s, t) == Len(s) <= Len(t) /\ s = SubSeq(t, 1, Len(s))

\* C10 (as claimed): a completed handler call for a boundary tick invoked the
\* hooks in the stated order, once each, with the closing candle; and every
\* closed candle was delivered to onCandle exactly once.
C10_DeliveredExactlyOnce ==
    /\ (outcome = "done" /\ LastWasBoundary)
        => hooks = BoundarySequence(LastTick, pre[1])
    /\ Len(candles) >= 2 => lastClosed.n = 1

\* C10 (amended): the hooks of a boundary tick are invoked in the stated order,
\* at most once each, and all of them when no hook fails; a closed candle was
\* delivered to onCandle once by the call that closed it and once more by each
\* earlier call that a failing hook ended after onCandle had been invoked.
C10_HookOrder ==
    /\ (Len(hooks) > 0 /\ LastWasBoundary)
        => IsPrefix(hooks, BoundarySequence(LastTick, pre[1]))
    /\ (outcome = "done" /\ LastWasBoundary)
        => hooks = BoundarySequence(LastTick, pre[1])
    /\ Len(candles) >= 2 => lastClosed.n = 1 + lastClosed.aborted

\* A candle was closed after an earlier handler call on it had failed.
C10_Witness ==
    /\ outcome = "done"
    /\ LastWasBoundary
    /\ hooks = BoundarySequence(LastTick, pre[1])
    /\ lastClosed.n = 2

\* ------------------------------------------------------ claims on the orders

\* The book without the entries of cid k.
Others(os, k) == SelectSeq(os, LAMBDA e : e.cid # k)

Count(os, x) == Cardinality({i \in DOMAIN os : os[i] = x})

InBook(k) == \E i \in DOMAIN orders : orders[i].cid = k

\* C1: a createOrder call that onBeforeOpen vetoes leaves the book as it is
\* (neither its call nor its return changes `orders`, and no entry of its cid
\* is ever in the book), never calls Transport.placeOrder, runs no onOpen
\* hook, and returns undefined.
C1_VetoedOpenIsNoOp ==
    [][ \A k \in 1..MaxCalls :
        /\ (opens[k].pc = "none" /\ opens'[k].pc # "none") => orders' = orders
        /\ (opens[k].pc # "vetoed" /\ opens'[k].pc = "vetoed") => orders' = orders
        /\ opens'[k].pc = "vetoed" =>
            /\ ~opens'[k].sent
            /\ ~opens'[k].executed
            /\ ~opens'[k].onOpen
            /\ \A i \in DOMAIN orders' : orders'[i].cid # k ]_vars

\* An open was vetoed while another order was in the book.
C1_Witness ==
    /\ opens[2].pc = "vetoed"
    /\ opens[1].pc = "placeOrder"
    /\ orders = <<Executed(0), Pending(1)>>

\* C2: a createOrder call whose Transport.placeOrder fails returns undefined
\* without having run onOpen, and leaves the book as it was before the call:
\* its cid was not in the book when it was called, none of its steps touches an
\* entry of another cid, and when it completes no entry of its cid is left.
C2_FailedOpenRestoresBook ==
    [][ \A k \in 1..MaxCalls :
        /\ opens[k].pc = "none" => ~InBook(k)
        /\ opens'[k] # opens[k] => Others(orders', k) = Others(orders, k)
        /\ (opens[k].pc = "placeOrder" /\ opens'[k].pc = "caught") =>
            /\ \A i \in DOMAIN orders' : orders'[i].cid # k
            /\ ~opens'[k].executed
            /\ ~opens'[k].onOpen ]_vars

\* An open failed at Transport after a later open had pushed its own entry.
C2_Witness ==
    /\ opens[1].pc = "caught"
    /\ opens[1].sent
    /\ ~opens[1].executed
    /\ opens[2].pc = "placeOrder"
    /\ orders = <<Executed(0), Pending(2)>>

\* C3 (as claimed): when the Transport close submission of a closeOrder call on
\* an executed order that was in the book fails, the call returns undefined
\* without having run onClose, and the order is then in the book exactly once,
\* at index 0.
C3_FailedCloseRestoresAtFront ==
    [][ \A c \in CloseIds :
        (closes[c].pc = "placeOrder" /\ closes'[c].pc = "caught" /\ closes[c].inBook) =>
            /\ ~closes'[c].onClose
            /\ Count(orders', closes[c].closing) = 1
            /\ orders'[1] = closes[c].closing ]_vars

\* C4: a closeOrder call made on an order while an earlier call on it is still
\* suspended returns undefined at once, leaves the book and the processing
\* flag as they are and submits nothing; so at most one closeOrder call per
\* order is past the guard at any time, and the flag is set while it is.
C4_OverlappingCloseIsNoOp ==
    [][ /\ \A c \in CloseIds :
            ( /\ closes[c].pc = "none"
              /\ closes'[c].pc # "none"
              /\ \E d \in CloseSlots :
                    closes[d].pc \in CloseAwaits /\ closes[d].closing = closes'[c].closing )
            => /\ closes'[c].pc = "noop"
               /\ ~closes'[c].sent
               /\ orders' = orders
               /\ processing' = processing
        /\ \A c, d \in CloseSlots :
            ( /\ closes'[c].pc \in CloseAwaits
              /\ closes'[d].pc \in CloseAwaits
              /\ closes'[c].closing = closes'[d].closing ) => c = d
        /\ \A c \in CloseSlots :
            closes'[c].pc \in CloseAwaits => closes'[c].closing.cid \in processing' ]_vars

\* A second close of an order was refused while the first was at Transport.
C4_Witness ==
    /\ closes[1].pc = "placeOrder"
    /\ closes[2].pc = "noop"
    /\ closes[1].closing = closes[2].closing
    /\ HasOrderId(closes[1].closing)

\* The createOrder call k returned its order, the closeOrder call c was then
\* made on that order and returned it, and no other closeOrder call was made
\* on it.
OpenThenClose(k, c) ==
    /\ opens[k].pc = "returned"
    /\ closes[c].pc = "returned"
    /\ closes[c].closing = Executed(k)
    /\ closes[c].inBook
    /\ \A d \in CloseSlots \ {c} : closes[d].pc = "none" \/ closes[d].closing # Executed(k)
    /\ \A i \in DOMAIN all.attempts : all.attempts[i] # Executed(k)

\* C11: createOrder followed, once it has returned its order, by closeOrder on
\* that order, with no veto and no failure, leaves the book with the entries it
\* had before createOrder: no step of either call touches an entry of another
\* cid, and when closeOrder returns no entry of the order's cid is left. Each
\* call made one Transport submission, onOpen was invoked by the first and
\* onClose by the second.
C11_OpenThenCloseRestoresBook ==
    [][ /\ \A k \in 1..MaxCalls :
            opens'[k] # opens[k] => Others(orders', k) = Others(orders, k)
        /\ \A c \in CloseIds :
            closes'[c] # closes[c] =>
                Others(orders', closes'[c].closing.cid) = Others(orders, closes'[c].closing.cid)
        /\ \A k \in 1..MaxCalls, c \in CloseIds :
            OpenThenClose(k, c)' =>
                /\ \A i \in DOMAIN orders' : orders'[i].cid # k
                /\ opens'[k].sent /\ opens'[k].executed /\ opens'[k].onOpen
                /\ closes'[c].sent /\ closes'[c].closed /\ closes'[c].onClose ]_vars

\* An order was opened next to the one already in the book, then closed.
C11_Witness ==
    /\ OpenThenClose(1, 1)
    /\ orders = <<Executed(0)>>
    /\ all.pc = "none"

\* What the closeAll call returned.
CloseAllReturn == IF all.pc = "returned" THEN all.closed ELSE Undefined

\* C12 (as claimed): when closeAll returns, its loop has made exactly one
\* closeOrder call for each order of the book it was called on, whatever the
\* outcome of the earlier calls; and it makes the next call only when the
\* previous one has ended.
C12_OneAttemptPerSnapshotOrder ==
    /\ all.pc = "returned" =>
        /\ Len(all.attempts) = Len(all.snapshot)
        /\ \A i \in DOMAIN all.snapshot : Count(all.attempts, all.snapshot[i]) = 1
    /\ all.pc = "closeOrder" => Len(all.attempts) = all.i + 1

\* C13 (as claimed): closeAll returns the list of the orders whose close
\* Transport accepted, in the order of the attempts, with no undefined entry;
\* on an empty book it returns the empty list.
C13_ReturnsClosedOrders ==
    all.pc \in {"empty", "returned"} => CloseAllReturn = all.succeeded

\* How a createOrder call can have ended.
OpenEnds == {"vetoed", "returned", "caught"}

\* C14 (as claimed): the catch blocks of createOrder and closeOrder handle the
\* failure of Transport.placeOrder only; a call suspended at a hook never ends
\* in the catch block and a failing hook leaves the book as it is.
C14_OnlyTransportFailuresCaught ==
    [][ /\ \A k \in 1..MaxCalls :
            (opens[k].pc \in OpenAwaits /\ opens'[k].pc = "caught") =>
                opens[k].pc = "placeOrder"
        /\ \A c \in CloseSlots :
            (closes[c].pc \in CloseAwaits /\ closes'[c].pc = "caught") =>
                closes[c].pc = "placeOrder" ]_vars

\* C15 (as claimed): the book never holds two entries of one position: no
\* order object twice, no pending entry beside the executed order of its cid.
C15_NoDuplicatePosition ==
    \A i, j \in DOMAIN orders : orders[i].cid = orders[j].cid => i = j

\* C16: when a closeOrder call that passed the guard ends, by a veto, by
\* returning the order or in the catch block (Transport or hook failure), the
\* order's processing flag is clear; a vetoed call has left the book as it was
\* and submitted nothing; and when every awaited hook and Transport call
\* settles, a set processing flag is cleared in the end.
C16_ProcessingCleared ==
    /\ [][ \A c \in CloseSlots :
            /\ (closes[c].pc \in CloseAwaits /\ closes'[c].pc \in CloseEnds) =>
                    closes'[c].closing.cid \notin processing'
            /\ (closes[c].pc \in CloseAwaits /\ closes'[c].pc = "vetoed") =>
                    /\ orders' = orders
                    /\ ~closes'[c].sent ]_vars
    /\ \A k \in Cids : (k \in processing) ~> (k \notin processing)

\* One close of the order in the book was vetoed, the next one failed after
\* Transport had accepted it, and the flag is clear.
C16_Witness ==
    /\ closes[1].pc = "vetoed"
    /\ closes[1].closing = Executed(0)
    /\ closes[2].pc = "caught"
    /\ closes[2].closing = Executed(0)
    /\ closes[2].closed
    /\ processing = {}

\* C17 (as claimed): the disposer unsubscribes only when closeAll has
\* returned, runs the onDispose hooks only when it has unsubscribed, and never
\* ends without having done both.
C17_DisposerReleases ==
    /\ ~subscribed => all.pc \in {"empty", "returned"}
    /\ disp.pc \in {"onDispose", "done", "failed"} => ~subscribed
    /\ disp.pc # "threw"

\* C18 (as claimed): when createOrder invokes the onOpen hooks, the book holds
\* the ExecutedOrder at the index the pending entry had, and the pending entry
\* no more.
C18_ReplacedBeforeOnOpen ==
    [][ \A k \in 1..MaxCalls :
        (opens[k].pc = "placeOrder" /\ opens'[k].pc = "onOpen") =>
            /\ IndexOf(orders, Pending(k)) # 0
            /\ IndexOf(orders', Executed(k)) = IndexOf(orders, Pending(k))
            /\ IndexOf(orders', Pending(k)) = 0 ]_vars

\* The closeOrder calls on order o that Transport accepted, so far.
SucceededCloses(o) ==
    Cardinality({c \in CloseSlots : closes[c].closed /\ closes[c].closing = o})
        + Count(all.succeeded, o)

\* C19 (as claimed): a closeOrder call made on an order after a closeOrder
\* call on it has returned it is a no-op, and Transport never accepts two
\* closes of one order.
C19_ClosedIsTerminal ==
    [][ /\ \A c \in CloseIds :
            ( /\ closes[c].pc = "none"
              /\ closes'[c].pc # "none"
              /\ \E d \in CloseIds :
                    closes[d].pc = "returned" /\ closes[d].closing = closes'[c].closing )
            => closes'[c].pc = "noop"
        /\ \A k \in Cids : SucceededCloses(Executed(k))' <= 1 ]_vars

\* C20 (as claimed): when a closeOrder call whose close Transport accepted
\* ends, the order is not in the book; when a createOrder call whose order
\* Transport executed ends, the ExecutedOrder is in the book.
C20_BookAgreesWithVenue ==
    [][ /\ \A c \in CloseSlots :
            (closes[c].pc \in CloseAwaits /\ closes'[c].pc \in CloseEnds /\ closes'[c].closed) =>
                IndexOf(orders', closes'[c].closing) = 0
        /\ \A k \in 1..MaxCalls :
            (opens[k].pc \in OpenAwaits /\ opens'[k].pc \in OpenEnds /\ opens'[k].executed) =>
                IndexOf(orders', Executed(k)) # 0 ]_vars

====
